---- MODULE Spec2Model ----
(***************************************************************************)
(* Model of pkg/Cluster.go: the cluster handle constructors (NewCluster,   *)
(* NewClusterFromEnvOrConfig), ServerVersion and FetchK8sObjects.          *)
(*                                                                         *)
(* Go strings whose characters matter (resource plural names, the minor    *)
(* version) are sequences of one-character strings; strings that are only  *)
(* compared for equality (kind names, namespaces) are TLA+ strings.        *)
(***************************************************************************)
EXTENDS Integers, Sequences, FiniteSets, TLC

\* ---------------------------------------------------------------- bounds
MaxGvks == 3

\* ------------------------------------------------------- string helpers
Range(s) == {s[k] : k \in 1..Len(s)}

\* Case folding of one character, restricted to ASCII and to the upper-case
\* letters that occur in the resource names below
UpperToLower == [c \in {"B", "L", "R", "T"} |->
                   CASE c = "B" -> "b" [] c = "L" -> "l"
                     [] c = "R" -> "r" [] c = "T" -> "t"]

FoldChar(c) == IF c \in DOMAIN UpperToLower THEN UpperToLower[c] ELSE c

ToLower(s) == [k \in 1..Len(s) |-> FoldChar(s[k])]

\* strings.Contains(s, substr): substr occurs in s, compared byte for byte
StringsContains(s, substr) ==
    \E k \in 0..(Len(s) - Len(substr)) : SubSeq(s, k + 1, k + Len(substr)) = substr

\* strings.EqualFold(s, t): equal under case folding
StringsEqualFold(s, t) == ToLower(s) = ToLower(t)

lists    == <<"l","i","s","t","s">>
reviews  == <<"r","e","v","i","e","w","s">>
bindings == <<"b","i","n","d","i","n","g","s">>

\* ------------------------------------------------- the cluster (environment)
pods         == <<"p","o","d","s">>
secrets      == <<"s","e","c","r","e","t","s">>
nodes        == <<"n","o","d","e","s">>
tokenreviews == <<"t","o","k","e","n">> \o reviews
checkLists   == <<"c","h","e","c","k","L","i","s","t","s">>
checklists   == <<"c","h","e","c","k">> \o lists
Bindings     == <<"B","i","n","d","i","n","g","s">>

GVK(g, v, k) == [Group |-> g, Version |-> v, Kind |-> k]
GVR(g, v, r) == [Group |-> g, Version |-> v, Resource |-> r]

\* What discovery knows: one resource per (group, version, kind).
Discovery ==
    { [gvk |-> GVK("", "v1", "Pod"),       gvr |-> GVR("", "v1", pods)],
      [gvk |-> GVK("", "v1", "Secret"),    gvr |-> GVR("", "v1", secrets)],
      [gvk |-> GVK("", "v1", "Node"),      gvr |-> GVR("", "v1", nodes)],
      [gvk |-> GVK("", "v1", "Binding"),   gvr |-> GVR("", "v1", Bindings)],
      [gvk |-> GVK("authentication.k8s.io", "v1", "TokenReview"),
       gvr |-> GVR("authentication.k8s.io", "v1", tokenreviews)],
      [gvk |-> GVK("example.com", "v1", "Checklist"),
       gvr |-> GVR("example.com", "v1", checklists)],
      [gvk |-> GVK("example.com", "v2", "CheckList"),
       gvr |-> GVR("example.com", "v2", checkLists)] }

\* A kind reference the cluster does not serve.
gvkWidget == GVK("example.com", "v1", "Widget")

KindRefs == {d.gvk : d \in Discovery} \cup {gvkWidget}

Obj(n, k, ns) == [name |-> n, kind |-> k, namespace |-> ns]

\* The live objects a successful list call of each resource returns.
ClusterObjects(gvr) ==
    CASE gvr.Resource = pods         -> << Obj("p1", "Pod", "prod"), Obj("p2", "Pod", "staging") >>
      [] gvr.Resource = secrets      -> << Obj("s1", "Secret", "prod") >>
      [] gvr.Resource = nodes        -> << Obj("n1", "Node", "") >>
      [] gvr.Resource = Bindings     -> << Obj("b1", "Binding", "prod") >>
      [] gvr.Resource = tokenreviews -> << Obj("t1", "TokenReview", "") >>
      [] gvr.Resource = checklists   -> << Obj("c1", "Checklist", "prod") >>
      [] gvr.Resource = checkLists   -> << Obj("c2", "CheckList", "prod") >>
      [] OTHER -> << >>

\* mapper.RESTMapping(gvk.GroupKind(), gvk.Version)
RESTMappingErr(gvk) == ~ \E d \in Discovery : d.gvk = gvk
RESTMapping(gvk) == (CHOOSE d \in Discovery : d.gvk = gvk).gvr

\* ------------------------------------------------------- filter configuration
KindLists      == { {}, {"Secret"}, {"Pod", "Secret"}, {"Pod"} }
IgnoreKindSets == { {}, {"Secret"} }
IgnoreNsSets   == { {}, {"staging"}, {"default"} }
SelectNsSets   == { {}, {"prod"}, {"default"} }

Configs == [IgnoreKinds : IgnoreKindSets, SelectKinds : KindLists,
            IgnoreNamespaces : IgnoreNsSets, SelectNamespaces : SelectNsSets]

\* Contains(key, list): key is an element of list
Contains(key, list) == key \in list

SeqsUpTo(S, n) == UNION {[1..m -> S] : m \in 0..n}

\* ------------------------------------------------------------------ state
VARIABLES
    pc,         \* position of the running call
    gvks, conf, \* FetchK8sObjects: arguments
    i,          \* FetchK8sObjects: index of the next kind reference (first loop)
    resources,  \* FetchK8sObjects: resources collected by the first loop
    j,          \* FetchK8sObjects: index of the next resource (second loop)
    objs,       \* FetchK8sObjects: the result being accumulated
    mapCalls,   \* log of RESTMapping calls (kind references)
    listCalls,  \* log of List calls: [resource, ok]
    info,       \* ServerVersion: what c.disco.ServerVersion() returned
    ret,        \* ServerVersion: the returned (string, error)
    args,       \* constructors: the arguments and environment of the call
    cluster,    \* constructors: the Cluster value being built
    err,        \* constructors: the error returned by the last library call
    panicMsg,   \* constructors: the value the process panicked with
    attempted,  \* constructors: resolution strategies attempted by the call
    flagDefined,\* process state: the "kubeconfig" command-line flag is defined
    calls       \* number of constructor calls made by the process

fetchVars   == <<gvks, conf, i, resources, j, objs, mapCalls, listCalls>>
versionVars == <<info, ret>>
newVars     == <<args, cluster, err, panicMsg, attempted, flagDefined, calls>>
vars == <<pc, fetchVars, versionVars, newVars>>

\* ------------------------------------------------------ FetchK8sObjects
NoInfo    == [Major |-> << >>, Minor |-> << >>, err |-> "nil"]
NoRet     == [version |-> << >>, err |-> "nil"]
NilConfig == [source |-> "nil", WarningHandler |-> "nil"]
NoCluster == [restConfig |-> NilConfig, disco |-> "nil", clientset |-> "nil"]
NoArgs    == [fn |-> "none", kubeconfig |-> "", kubecontext |-> "",
              useLocalDevMode |-> "", restConfig |-> NilConfig]

VersionIdle == info = NoInfo /\ ret = NoRet
NewIdle ==
    /\ args = NoArgs
    /\ cluster = NoCluster
    /\ err = "nil"
    /\ panicMsg = "none"
    /\ attempted = {}
    /\ flagDefined = FALSE
    /\ calls = 0
FetchIdle ==
    /\ gvks = << >>
    /\ conf = [IgnoreKinds |-> {}, SelectKinds |-> {},
               IgnoreNamespaces |-> {}, SelectNamespaces |-> {}]
    /\ i = 1
    /\ resources = << >>
    /\ j = 1
    /\ objs = << >>
    /\ mapCalls = << >>
    /\ listCalls = << >>

FetchInit ==
    /\ pc = "fetch"
    /\ VersionIdle
    /\ NewIdle
    /\ gvks \in SeqsUpTo(KindRefs, MaxGvks)
    /\ conf \in Configs
    /\ i = 1
    /\ resources = << >>
    /\ j = 1
    /\ objs = << >>
    /\ mapCalls = << >>
    /\ listCalls = << >>

\* mutant: a name in the allow-list is kept even when it is in the deny-list
KindSkippedAllowWins(gvk, c) ==
    IF Cardinality(c.SelectKinds) > 0
    THEN ~Contains(gvk.Kind, c.SelectKinds)
    ELSE Contains(gvk.Kind, c.IgnoreKinds)

\* mutant: the allow-list is not consulted
KindSkippedNoAllowList(gvk, c) == Contains(gvk.Kind, c.IgnoreKinds)

\* the kind filters of the first loop
KindSkipped(gvk, c) ==
    \/ Contains(gvk.Kind, c.IgnoreKinds)
    \/ Cardinality(c.SelectKinds) > 0 /\ ~Contains(gvk.Kind, c.SelectKinds)

\* mutant: a resource already collected is not collected again
MapStepDedup ==
    /\ pc = "fetch"
    /\ i <= Len(gvks)
    /\ LET gvk == gvks[i] IN
         IF KindSkipped(gvk, conf)
         THEN UNCHANGED <<resources, mapCalls>>
         ELSE /\ mapCalls' = Append(mapCalls, gvk)
              /\ IF RESTMappingErr(gvk) \/ RESTMapping(gvk) \in Range(resources)
                 THEN UNCHANGED resources
                 ELSE resources' = Append(resources, RESTMapping(gvk))
    /\ i' = i + 1
    /\ UNCHANGED <<pc, gvks, conf, j, objs, listCalls, versionVars, newVars>>

\* one iteration of the first loop
MapStep ==
    /\ pc = "fetch"
    /\ i <= Len(gvks)
    /\ LET gvk == gvks[i] IN
         IF KindSkipped(gvk, conf)
         THEN UNCHANGED <<resources, mapCalls>>
         ELSE /\ mapCalls' = Append(mapCalls, gvk)
              /\ IF RESTMappingErr(gvk)
                 THEN UNCHANGED resources
                 ELSE resources' = Append(resources, RESTMapping(gvk))
    /\ i' = i + 1
    /\ UNCHANGED <<pc, gvks, conf, j, objs, listCalls, versionVars, newVars>>

\* mutant: "bindings" compared exactly instead of with EqualFold
SkipResourceExactBindings(resource) ==
    \/ StringsContains(resource.Resource, lists)
    \/ StringsContains(resource.Resource, reviews)
    \/ resource.Resource = bindings

\* the resource filter of the second loop
SkipResource(resource) ==
    \/ StringsContains(resource.Resource, lists)
    \/ StringsContains(resource.Resource, reviews)
    \/ StringsEqualFold(resource.Resource, bindings)

\* mutant: an empty namespace is not defaulted
EffectiveNamespaceRaw(obj) == obj.namespace

\* the namespace an object is filtered under
EffectiveNamespace(obj) ==
    IF Len(obj.namespace) = 0 THEN "default" ELSE obj.namespace

NamespaceSkipped(namespace, c) ==
    \/ Contains(namespace, c.IgnoreNamespaces)
    \/ Cardinality(c.SelectNamespaces) > 0 /\ ~Contains(namespace, c.SelectNamespaces)

\* mutant: the defaulted namespace is written into the appended object
ResultEntryDefaulted(obj, namespace) == [obj EXCEPT !.namespace = namespace]

\* objs = append(objs, obj)
ResultEntry(obj, namespace) == obj

RECURSIVE FilterItems(_, _)
FilterItems(items, c) ==
    IF items = << >> THEN << >>
    ELSE LET obj == Head(items)
             namespace == EffectiveNamespace(obj)
         IN  IF NamespaceSkipped(namespace, c)
             THEN FilterItems(Tail(items), c)
             ELSE <<ResultEntry(obj, namespace)>> \o FilterItems(Tail(items), c)

\* mutant: a failed list call ends the fetch with what was collected so far
ListStepReturnOnError ==
    /\ pc = "fetch"
    /\ i > Len(gvks)
    /\ j <= Len(resources)
    /\ LET resource == resources[j] IN
         IF SkipResource(resource)
         THEN UNCHANGED <<objs, listCalls, pc>>
         ELSE \E ok \in BOOLEAN :
                /\ listCalls' = Append(listCalls, [resource |-> resource, ok |-> ok])
                /\ IF ok
                   THEN /\ objs' = objs \o FilterItems(ClusterObjects(resource), conf)
                        /\ UNCHANGED pc
                   ELSE /\ pc' = "done"
                        /\ UNCHANGED objs
    /\ j' = j + 1
    /\ UNCHANGED <<gvks, conf, i, resources, mapCalls, versionVars, newVars>>

\* one iteration of the second loop
ListStep ==
    /\ pc = "fetch"
    /\ i > Len(gvks)
    /\ j <= Len(resources)
    /\ LET resource == resources[j] IN
         IF SkipResource(resource)
         THEN UNCHANGED <<objs, listCalls>>
         ELSE \E ok \in BOOLEAN :
                /\ listCalls' = Append(listCalls, [resource |-> resource, ok |-> ok])
                /\ IF ok
                   THEN objs' = objs \o FilterItems(ClusterObjects(resource), conf)
                   ELSE UNCHANGED objs
    /\ j' = j + 1
    /\ UNCHANGED <<pc, gvks, conf, i, resources, mapCalls, versionVars, newVars>>

FetchReturn ==
    /\ pc = "fetch"
    /\ i > Len(gvks)
    /\ j > Len(resources)
    /\ pc' = "done"
    /\ UNCHANGED <<fetchVars, versionVars, newVars>>

Init == FetchInit
Next == MapStep \/ ListStep \/ FetchReturn
Spec == Init /\ [][Next]_vars

\* -------------------------------------------------------- ServerVersion
MaxMinorLen == 4

MinorChars  == {"2", "8", "+"}
Majors      == {<<"1">>, <<"2">>}
Minors      == SeqsUpTo(MinorChars, MaxMinorLen)
DiscoErrors == {"connection refused", "unauthorized"}

RECURSIVE TrimLeft(_, _)
\* strings.TrimLeft(s, cutset)
TrimLeft(s, cutset) ==
    IF s # << >> /\ Head(s) \in cutset THEN TrimLeft(Tail(s), cutset) ELSE s

RECURSIVE TrimRight(_, _)
\* strings.TrimRight(s, cutset)
TrimRight(s, cutset) ==
    IF s # << >> /\ s[Len(s)] \in cutset
    THEN TrimRight(SubSeq(s, 1, Len(s) - 1), cutset)
    ELSE s

\* strings.Trim(s, cutset): all leading and trailing characters of cutset removed
StringsTrim(s, cutset) == TrimRight(TrimLeft(s, cutset), cutset)

\* fmt.Sprintf("%s.%s", a, b)
SprintfDot(a, b) == a \o <<".">> \o b

VersionInit ==
    /\ pc = "version"
    /\ VersionIdle
    /\ FetchIdle
    /\ NewIdle

ServerVersion ==
    /\ pc = "version"
    /\ \E res \in [Major : Majors, Minor : Minors, err : {"nil"}]
                 \cup [Major : {<< >>}, Minor : {<< >>}, err : DiscoErrors] :
          /\ info' = res
          /\ ret' = IF res.err # "nil"
                    THEN [version |-> << >>, err |-> res.err]
                    ELSE [version |-> SprintfDot(res.Major, StringsTrim(res.Minor, {"+"})),
                          err |-> "nil"]
    /\ pc' = "versionDone"
    /\ UNCHANGED <<fetchVars, newVars>>

NextVersion == ServerVersion
SpecVersion == VersionInit /\ [][NextVersion]_vars

\* ------------------------------------ NewCluster, NewClusterFromEnvOrConfig
MaxCalls == 2

\* the errors each library call can return
LoadErrors      == {"kubeconfig: no such file", "kubeconfig: yaml error"}
ClientCfgErrors == {"context does not exist", "no server found for cluster"}
UserErrors      == {"user: Current not implemented"}
BuildErrors     == {"stat ~/.kube/config: no such file"}
InClusterErrors == {"unable to load in-cluster configuration"}
DiscoNewErrors  == {"discovery: invalid host"}
DynamicErrors   == {"dynamic: invalid tls config"}

\* what the Go runtime panics with on a nil pointer dereference
NilDeref      == "runtime error: invalid memory address or nil pointer dereference"
\* what flag.String panics with when the flag is already defined
FlagRedefined == "flag redefined: kubeconfig"

Config(src) == [source |-> src, WarningHandler |-> "default"]
InjectedConfigs == {NilConfig, Config("injected")}
EnvValues == {"true", "false", ""}

NewInit ==
    /\ pc = "idle"
    /\ NewIdle
    /\ FetchIdle
    /\ VersionIdle

\* the process calls NewCluster(kubeconfig, kubecontext)
CallNewCluster ==
    /\ pc \in {"idle", "returned"}
    /\ calls < MaxCalls
    /\ \E kubeconfig \in {"", "/etc/kube.yaml"}, kubecontext \in {"", "prod"} :
          args' = [NoArgs EXCEPT !.fn = "NewCluster", !.kubeconfig = kubeconfig,
                                 !.kubecontext = kubecontext]
    /\ calls' = calls + 1
    /\ cluster' = NoCluster
    /\ err' = "nil"
    /\ attempted' = {}
    /\ pc' = "nc_load"
    /\ UNCHANGED <<panicMsg, flagDefined, fetchVars, versionVars>>

\* pathOptions.GetStartingConfig() and its error check
NcGetStartingConfig ==
    /\ pc = "nc_load"
    /\ \E e \in {"nil"} \cup LoadErrors :
          /\ err' = e
          /\ IF e # "nil"
             THEN pc' = "panicked" /\ panicMsg' = e
             ELSE pc' = "nc_clientConfig" /\ UNCHANGED panicMsg
    /\ UNCHANGED <<args, cluster, attempted, flagDefined, calls, fetchVars, versionVars>>

\* clientConfig.ClientConfig(): a configuration and nil, or nil and an error
ClientConfigResults ==
    {[config |-> Config("kubeconfig"), err |-> "nil"]}
        \cup {[config |-> NilConfig, err |-> e] : e \in ClientCfgErrors}

\* cluster.restConfig, err = clientConfig.ClientConfig(); the store to
\* cluster.restConfig.WarningHandler; then the error check
NcClientConfig ==
    /\ pc = "nc_clientConfig"
    /\ \E res \in ClientConfigResults :
          /\ err' = res.err
          /\ IF res.config = NilConfig
             THEN /\ cluster' = [cluster EXCEPT !.restConfig = res.config]
                  /\ pc' = "panicked"
                  /\ panicMsg' = NilDeref
             ELSE /\ cluster' = [cluster EXCEPT !.restConfig =
                                    [res.config EXCEPT !.WarningHandler = "NoWarnings"]]
                  /\ IF res.err # "nil"
                     THEN pc' = "panicked" /\ panicMsg' = res.err
                     ELSE pc' = "nc_disco" /\ UNCHANGED panicMsg
    /\ UNCHANGED <<args, attempted, flagDefined, calls, fetchVars, versionVars>>

\* NewCluster: discovery.NewDiscoveryClientForConfig(cluster.restConfig) and its error check
NcDiscovery ==
    /\ pc = "nc_disco"
    /\ \E e \in {"nil"} \cup DiscoNewErrors :
          /\ err' = e
          /\ IF e # "nil"
             THEN /\ pc' = "panicked"
                  /\ panicMsg' = e
                  /\ UNCHANGED cluster
             ELSE /\ pc' = "nc_dynamic"
                  /\ cluster' = [cluster EXCEPT !.disco = "discoveryClient"]
                  /\ UNCHANGED panicMsg
    /\ UNCHANGED <<args, attempted, flagDefined, calls, fetchVars, versionVars>>

\* NewCluster: dynamic.NewForConfig(cluster.restConfig), its error check, return &cluster
NcDynamic ==
    /\ pc = "nc_dynamic"
    /\ \E e \in {"nil"} \cup DynamicErrors :
          /\ err' = e
          /\ IF e # "nil"
             THEN /\ pc' = "panicked"
                  /\ panicMsg' = e
                  /\ UNCHANGED cluster
             ELSE /\ pc' = "returned"
                  /\ cluster' = [cluster EXCEPT !.clientset = "dynamicClient"]
                  /\ UNCHANGED panicMsg
    /\ UNCHANGED <<args, attempted, flagDefined, calls, fetchVars, versionVars>>

\* the process calls NewClusterFromEnvOrConfig(restConfig) with
\* USE_LOCAL_DEV_MODE set to useLocalDevMode
CallNewClusterFromEnvOrConfig ==
    /\ pc \in {"idle", "returned"}
    /\ calls < MaxCalls
    /\ \E useLocalDevMode \in EnvValues, restConfig \in InjectedConfigs :
          args' = [NoArgs EXCEPT !.fn = "NewClusterFromEnvOrConfig",
                                 !.useLocalDevMode = useLocalDevMode,
                                 !.restConfig = restConfig]
    /\ calls' = calls + 1
    /\ cluster' = NoCluster
    /\ err' = "nil"
    /\ attempted' = {}
    /\ pc' = "env_resolve"
    /\ UNCHANGED <<panicMsg, flagDefined, fetchVars, versionVars>>

\* mutant: an injected configuration is preferred to the local-dev flag
ChooseStrategyInjectedFirst(useLocalDevMode, restConfig) ==
    IF restConfig # NilConfig THEN "injected"
    ELSE IF useLocalDevMode = "true" THEN "localDev"
    ELSE "inCluster"

\* the if / else if / else that selects the resolution strategy
ChooseStrategy(useLocalDevMode, restConfig) ==
    IF useLocalDevMode = "true" THEN "localDev"
    ELSE IF restConfig # NilConfig THEN "injected"
    ELSE "inCluster"

\* the local-dev branch: user.Current(), flag.String("kubeconfig", ...),
\* clientcmd.BuildConfigFromFlags, then the WarningHandler store
EnvLocalDev ==
    /\ pc = "env_resolve"
    /\ ChooseStrategy(args.useLocalDevMode, args.restConfig) = "localDev"
    /\ attempted' = attempted \cup {"localDev"}
    /\ \E ue \in {"nil"} \cup UserErrors, be \in {"nil"} \cup BuildErrors :
          IF ue # "nil"
          THEN /\ err' = ue
               /\ pc' = "panicked"
               /\ panicMsg' = ue
               /\ UNCHANGED <<cluster, flagDefined>>
          ELSE IF flagDefined
          THEN /\ err' = "nil"
               /\ pc' = "panicked"
               /\ panicMsg' = FlagRedefined
               /\ UNCHANGED <<cluster, flagDefined>>
          ELSE /\ flagDefined' = TRUE
               /\ err' = be
               /\ IF be # "nil"
                  THEN /\ pc' = "panicked"
                       /\ panicMsg' = be
                       /\ UNCHANGED cluster
                  ELSE /\ pc' = "env_disco"
                       /\ cluster' = [cluster EXCEPT !.restConfig =
                                         [Config("localDev") EXCEPT !.WarningHandler = "NoWarnings"]]
                       /\ UNCHANGED panicMsg
    /\ UNCHANGED <<args, calls, fetchVars, versionVars>>

\* the injected branch: defaultRestConfig = restConfig, then the WarningHandler store
EnvInjected ==
    /\ pc = "env_resolve"
    /\ ChooseStrategy(args.useLocalDevMode, args.restConfig) = "injected"
    /\ attempted' = attempted \cup {"injected"}
    /\ cluster' = [cluster EXCEPT !.restConfig =
                      [args.restConfig EXCEPT !.WarningHandler = "NoWarnings"]]
    /\ pc' = "env_disco"
    /\ UNCHANGED <<args, err, panicMsg, flagDefined, calls, fetchVars, versionVars>>

\* the fallback branch: rest.InClusterConfig(), then the WarningHandler store
EnvInCluster ==
    /\ pc = "env_resolve"
    /\ ChooseStrategy(args.useLocalDevMode, args.restConfig) = "inCluster"
    /\ attempted' = attempted \cup {"inCluster"}
    /\ \E e \in {"nil"} \cup InClusterErrors :
          /\ err' = e
          /\ IF e # "nil"
             THEN /\ pc' = "panicked"
                  /\ panicMsg' = e
                  /\ UNCHANGED cluster
             ELSE /\ pc' = "env_disco"
                  /\ cluster' = [cluster EXCEPT !.restConfig =
                                    [Config("inCluster") EXCEPT !.WarningHandler = "NoWarnings"]]
                  /\ UNCHANGED panicMsg
    /\ UNCHANGED <<args, flagDefined, calls, fetchVars, versionVars>>

\* NewClusterFromEnvOrConfig: discovery.NewDiscoveryClientForConfig(cluster.restConfig) and its error check
EnvDiscovery ==
    /\ pc = "env_disco"
    /\ \E e \in {"nil"} \cup DiscoNewErrors :
          /\ err' = e
          /\ IF e # "nil"
             THEN /\ pc' = "panicked"
                  /\ panicMsg' = e
                  /\ UNCHANGED cluster
             ELSE /\ pc' = "env_dynamic"
                  /\ cluster' = [cluster EXCEPT !.disco = "discoveryClient"]
                  /\ UNCHANGED panicMsg
    /\ UNCHANGED <<args, attempted, flagDefined, calls, fetchVars, versionVars>>

\* NewClusterFromEnvOrConfig: dynamic.NewForConfig(cluster.restConfig), its error check, return &cluster
EnvDynamic ==
    /\ pc = "env_dynamic"
    /\ \E e \in {"nil"} \cup DynamicErrors :
          /\ err' = e
          /\ IF e # "nil"
             THEN /\ pc' = "panicked"
                  /\ panicMsg' = e
                  /\ UNCHANGED cluster
             ELSE /\ pc' = "returned"
                  /\ cluster' = [cluster EXCEPT !.clientset = "dynamicClient"]
                  /\ UNCHANGED panicMsg
    /\ UNCHANGED <<args, attempted, flagDefined, calls, fetchVars, versionVars>>

NextNew ==
    \/ CallNewCluster \/ NcGetStartingConfig \/ NcClientConfig
    \/ NcDiscovery \/ NcDynamic
    \/ CallNewClusterFromEnvOrConfig \/ EnvLocalDev \/ EnvInjected \/ EnvInCluster
    \/ EnvDiscovery \/ EnvDynamic
SpecNew == NewInit /\ [][NextNew]_vars

\* ------------------------------------------------ vocabulary of the properties
AllResources == {d.gvr : d \in Discovery}
LiveObjects  == UNION {Range(ClusterObjects(r)) : r \in AllResources}
ResourceOf(o) == CHOOSE r \in AllResources : o \in Range(ClusterObjects(r))
LiveByName(n) == CHOOSE o \in LiveObjects : o.name = n
Count(x, s)  == Cardinality({k \in 1..Len(s) : s[k] = x})
OkListCalls(r) ==
    Cardinality({k \in 1..Len(listCalls) : listCalls[k] = [resource |-> r, ok |-> TRUE]})
ListCallsOf(r) ==
    Cardinality({k \in 1..Len(listCalls) : listCalls[k].resource = r})
\* the namespace filters, written out on the namespace an object is filtered under
FilterNs(o) == IF o.namespace = "" THEN "default" ELSE o.namespace
PassesNs(o) ==
    /\ FilterNs(o) \notin conf.IgnoreNamespaces
    /\ conf.SelectNamespaces # {} => FilterNs(o) \in conf.SelectNamespaces
\* the kind filters, written out
PassesKind(gvk) ==
    /\ gvk.Kind \notin conf.IgnoreKinds
    /\ conf.SelectKinds # {} => gvk.Kind \in conf.SelectKinds
Served(gvk) == \E d \in Discovery : d.gvk = gvk
ResourceFor(gvk) == (CHOOSE d \in Discovery : d.gvk = gvk).gvr
\* resource names the code excludes: "lists"/"reviews" byte for byte, "bindings" up to case
ExcludedName(n) ==
    \/ \E k \in 0..(Len(n) - Len(lists)) : SubSeq(n, k + 1, k + Len(lists)) = lists
    \/ \E k \in 0..(Len(n) - Len(reviews)) : SubSeq(n, k + 1, k + Len(reviews)) = reviews
    \/ ToLower(n) = bindings
\* resource names excluded when all three tests are made case-insensitively
ExcludedNameFold(n) ==
    \/ \E k \in 0..(Len(n) - Len(lists)) : SubSeq(ToLower(n), k + 1, k + Len(lists)) = lists
    \/ \E k \in 0..(Len(n) - Len(reviews)) : SubSeq(ToLower(n), k + 1, k + Len(reviews)) = reviews
    \/ ToLower(n) = bindings
\* positions of the input whose kind reference is listed by the second loop
ListedPositions(r) ==
    {k \in 1..Len(gvks) : /\ PassesKind(gvks[k])
                          /\ Served(gvks[k])
                          /\ ResourceFor(gvks[k]) = r
                          /\ ~ExcludedName(r.Resource)}

\* C1 (as stated): every result entry whose listed object has an empty
\* namespace reports namespace "default".
C1_Original ==
    \A k \in 1..Len(objs) :
        LiveByName(objs[k].name).namespace = "" => objs[k].namespace = "default"

\* C1 (amended): every result entry is the listed object unchanged; an object
\* listed with an empty namespace is filtered under "default" (it is in the
\* result only if "default" passes the namespace filters) and its entry in the
\* result still has the empty namespace.
C1_EntryUnchanged ==
    \A k \in 1..Len(objs) :
        LET o == LiveByName(objs[k].name) IN
          /\ objs[k] = o
          /\ o.namespace = "" =>
                /\ objs[k].namespace = ""
                /\ "default" \notin conf.IgnoreNamespaces
                /\ conf.SelectNamespaces # {} => "default" \in conf.SelectNamespaces

C1_Witness ==
    /\ pc = "done"
    /\ conf.SelectNamespaces = {"default"}
    /\ \E k \in 1..Len(objs) : objs[k].name = "n1" /\ objs[k].namespace = ""

\* C2: a kind reference whose kind name is in IgnoreKinds is never mapped, its
\* resource is never listed, and no object of that kind or of that resource is
\* in the result, also when the name is in SelectKinds too.
C2_DeniedKindNeverContributes ==
    \A k \in 1..Len(gvks) :
        gvks[k].Kind \in conf.IgnoreKinds =>
            /\ Count(gvks[k], mapCalls) = 0
            /\ \A n \in 1..Len(objs) : objs[n].kind # gvks[k].Kind
            /\ Served(gvks[k]) =>
                  /\ ListCallsOf(ResourceFor(gvks[k])) = 0
                  /\ \A n \in 1..Len(objs) :
                        objs[n] \notin Range(ClusterObjects(ResourceFor(gvks[k])))

C2_Witness ==
    /\ pc = "done"
    /\ conf.IgnoreKinds = {"Secret"}
    /\ conf.SelectKinds = {"Pod", "Secret"}
    /\ conf.IgnoreNamespaces = {}
    /\ conf.SelectNamespaces = {}
    /\ gvks = << GVK("", "v1", "Secret"), GVK("", "v1", "Pod"), GVK("", "v1", "Secret") >>
    /\ objs = ClusterObjects(GVR("", "v1", pods))

\* C3: with a non-empty SelectKinds only kind references named in it are mapped
\* and contribute objects; with an empty SelectKinds every kind reference whose
\* name is not in IgnoreKinds is passed to the REST mapper.
C3_AllowList ==
    /\ conf.SelectKinds # {} =>
          /\ \A n \in 1..Len(mapCalls) : mapCalls[n].Kind \in conf.SelectKinds
          /\ \A n \in 1..Len(listCalls) :
                \E d \in Discovery : /\ d.gvr = listCalls[n].resource
                                     /\ d.gvk.Kind \in conf.SelectKinds
          /\ \A n \in 1..Len(objs) : objs[n].kind \in conf.SelectKinds
    /\ (conf.SelectKinds = {} /\ i > Len(gvks)) =>
          \A g \in KindRefs :
              Count(g, mapCalls) =
                  IF g.Kind \in conf.IgnoreKinds THEN 0 ELSE Count(g, gvks)

C3_Witness ==
    /\ pc = "done"
    /\ conf.SelectKinds = {"Pod"}
    /\ conf.IgnoreKinds = {}
    /\ gvks = << GVK("", "v1", "Node"), GVK("", "v1", "Pod") >>
    /\ mapCalls = << GVK("", "v1", "Pod") >>
    /\ Len(objs) > 0

\* C4: every result entry's effective namespace passes both namespace filters,
\* and every object returned by a successful list call whose effective
\* namespace passes them is in the result.
C4_NamespaceFilter ==
    /\ \A n \in 1..Len(objs) : PassesNs(LiveByName(objs[n].name))
    /\ \A n \in 1..Len(listCalls) :
          listCalls[n].ok =>
              \A o \in Range(ClusterObjects(listCalls[n].resource)) :
                  PassesNs(o) => Count(o, objs) > 0

C4_Witness ==
    /\ pc = "done"
    /\ conf.IgnoreNamespaces = {"default"}
    /\ conf.SelectNamespaces = {}
    /\ \E n \in 1..Len(listCalls) :
          listCalls[n] = [resource |-> GVR("", "v1", nodes), ok |-> TRUE]
    /\ \E n \in 1..Len(objs) : objs[n].namespace = "prod"
    /\ \A n \in 1..Len(objs) : objs[n].name # "n1"

\* C5 (as stated): no list call is issued, and no object returned, for a
\* resource whose plural name, compared case-insensitively, contains "lists",
\* contains "reviews" or equals "bindings".
C5_Original ==
    /\ \A n \in 1..Len(listCalls) : ~ExcludedNameFold(listCalls[n].resource.Resource)
    /\ \A n \in 1..Len(objs) :
          ~ExcludedNameFold(ResourceOf(LiveByName(objs[n].name)).Resource)

\* C5 (amended): no list call is issued, and no object returned, for a
\* resource whose plural name contains "lists" or "reviews" exactly as written
\* (lower case) or equals "bindings" up to case.
C5_ExcludedResources ==
    /\ \A n \in 1..Len(listCalls) : ~ExcludedName(listCalls[n].resource.Resource)
    /\ \A n \in 1..Len(objs) :
          ~ExcludedName(ResourceOf(LiveByName(objs[n].name)).Resource)

C5_Witness ==
    /\ pc = "done"
    /\ conf.IgnoreKinds = {}
    /\ conf.SelectKinds = {}
    /\ gvks = << GVK("", "v1", "Binding"),
                 GVK("authentication.k8s.io", "v1", "TokenReview") >>
    /\ Len(resources) = 2
    /\ listCalls = << >>
    /\ objs = << >>

\* C6: a REST mapping error or a failed list call never ends the fetch early:
\* the call can always take its next step until it returns, and when it has
\* returned every kind reference and every resource has been processed, every
\* kind reference that passes the kind filters was mapped, every resource of a
\* served, filter-passing, non-excluded kind reference was listed, a resource
\* with no successful list call contributes nothing, and every object of a
\* successfully listed resource that passes the namespace filters is in the
\* result.
C6_FailuresDoNotAbort ==
    /\ pc = "done" \/ ENABLED Next
    /\ pc = "done" =>
          /\ i = Len(gvks) + 1
          /\ j = Len(resources) + 1
          /\ Len(mapCalls) = Cardinality({k \in 1..Len(gvks) : PassesKind(gvks[k])})
          /\ \A r \in AllResources :
                /\ ListCallsOf(r) = Cardinality(ListedPositions(r))
                /\ \A o \in Range(ClusterObjects(r)) :
                      /\ OkListCalls(r) = 0 => Count(o, objs) = 0
                      /\ (OkListCalls(r) > 0 /\ PassesNs(o)) => Count(o, objs) > 0

C6_Witness ==
    /\ pc = "done"
    /\ conf.IgnoreKinds = {}
    /\ conf.SelectKinds = {}
    /\ conf.IgnoreNamespaces = {}
    /\ conf.SelectNamespaces = {}
    /\ gvks = << gvkWidget, GVK("", "v1", "Secret"), GVK("", "v1", "Pod") >>
    /\ listCalls = << [resource |-> GVR("", "v1", secrets), ok |-> FALSE],
                      [resource |-> GVR("", "v1", pods), ok |-> TRUE] >>
    /\ objs = ClusterObjects(GVR("", "v1", pods))

C7_Claim ==
    pc = "versionDone" =>
        IF info.err = "nil"
        THEN ret = [version |-> info.Major \o <<".">> \o TrimRight(info.Minor, {"+"}),
                    err |-> "nil"]
        ELSE ret = [version |-> << >>, err |-> info.err]

\* C8: every failing configuration or client-construction call of NewCluster
\* and NewClusterFromEnvOrConfig makes the process panic with the error that
\* call returned, and no cluster handle is returned.
C8_Claim ==
    err # "nil" => (pc = "panicked" /\ panicMsg = err)

\* C9: NewClusterFromEnvOrConfig attempts exactly one resolution strategy per
\* call: local-dev when USE_LOCAL_DEV_MODE is "true" (an injected
\* configuration is then ignored), else the injected configuration when it is
\* non-nil, else in-cluster; a failure of that strategy ends the call without
\* another strategy being attempted, and a returned handle carries the
\* configuration of that strategy.
C9_OneStrategy ==
    (args.fn = "NewClusterFromEnvOrConfig" /\ pc # "env_resolve") =>
        LET chosen == IF args.useLocalDevMode = "true" THEN "localDev"
                      ELSE IF args.restConfig # NilConfig THEN "injected"
                      ELSE "inCluster"
        IN  /\ attempted = {chosen}
            /\ pc \in {"env_disco", "env_dynamic", "returned"} =>
                  cluster.restConfig.source = chosen
            /\ cluster.restConfig.source \in {"nil", chosen}

C9_Witness ==
    /\ args.fn = "NewClusterFromEnvOrConfig"
    /\ args.useLocalDevMode = "true"
    /\ args.restConfig # NilConfig
    /\ pc = "returned"
    /\ cluster.restConfig.source = "localDev"
====
